---------------------------- MODULE Spec2Model ----------------------------
(***************************************************************************)
(* A model of the job_bot repository: the Lever link processor, the        *)
(* location classifier, the posting parser, the record store and the Bot   *)
(* that drives them.                                                       *)
(*                                                                         *)
(* Python strings are sequences of one-character strings, so that split,   *)
(* replace, lower and rstrip are computed character by character.  None is *)
(* the one-element sequence <<"None">>, which is no string of characters.  *)
(***************************************************************************)
EXTENDS Naturals, Integers, Sequences, FiniteSets, TLC

VARIABLES
    pc,        \* position of the driver: which call has just returned
    arg,       \* argument of the function under study (pure-function specs)
    res,       \* value it returned
    history,   \* files/output/scraped_urls.txt, as its sequence of lines
    bot,       \* the live Bot: [alive, prev, hasJobs, jobs]
    store,     \* files/output/main.csv: [exists, rows]
    web,       \* what a fetch of each posting url gives in this behaviour
    batch,     \* what the last save_job_info call saw and collected
    trace,     \* bookkeeping over runs: raw urls that produced a record
    demo       \* the Browser session and the table of the apply loop

vars == <<pc, arg, res, history, bot, store, web, batch, trace, demo>>

----------------------------------------------------------------------------
(* Bounds of the model.                                                    *)

\* Chunks between the head and the tail of a generated url.
MaxMid == 3

\* Tokens in a location handed to the classifier.
MaxTokens == 3

\* Divs of class 'section page-centered' on a generated page.
MaxSections == 3

\* get_jobs calls made in a behaviour.
MaxGets == 2

\* save_job_info calls made in a behaviour.
MaxBatches == 1

----------------------------------------------------------------------------
(* Strings.                                                                *)

None == <<"None">>

Min(a, b) == IF a <= b THEN a ELSE b

\* s[i:j] of Python for 0 <= i, as 1-based SubSeq.
Slice(s, from, to) == SubSeq(s, from, Min(to, Len(s)))

\* p occurs in s starting at (1-based) position i.
OccursAt(s, p, i) ==
    /\ i >= 1
    /\ i + Len(p) - 1 <= Len(s)
    /\ SubSeq(s, i, i + Len(p) - 1) = p

\* Python's `p in s`.
Contains(s, p) == \E i \in 1..(Len(s) + 1) : OccursAt(s, p, i)

\* Python's s.replace(old, new): leftmost occurrences, not overlapping.
RECURSIVE ReplaceFrom(_, _, _, _)
ReplaceFrom(s, old, new, i) ==
    IF i > Len(s) THEN <<>>
    ELSE IF OccursAt(s, old, i)
         THEN new \o ReplaceFrom(s, old, new, i + Len(old))
         ELSE <<s[i]>> \o ReplaceFrom(s, old, new, i + 1)

Replace(s, old, new) == ReplaceFrom(s, old, new, 1)

\* Python's s.split(sep) for a one-character sep: the list of segments.
RECURSIVE SplitFrom(_, _, _, _)
SplitFrom(s, sep, i, cur) ==
    IF i > Len(s) THEN <<cur>>
    ELSE IF s[i] = sep
         THEN <<cur>> \o SplitFrom(s, sep, i + 1, <<>>)
         ELSE SplitFrom(s, sep, i + 1, Append(cur, s[i]))

Split(s, sep) == SplitFrom(s, sep, 1, <<>>)

Last(seq) == seq[Len(seq)]

UpperLetters == <<"A","B","C","D","E","F","G","H","I","J","K","L","M","N","O","P","Q","R","S","T","U","V","W","X","Y","Z">>

LowerLetters == <<"a","b","c","d","e","f","g","h","i","j","k","l","m","n","o","p","q","r","s","t","u","v","w","x","y","z">>

\* Python's str.lower() on one character.
LowerChar(c) ==
    IF \E k \in 1..Len(UpperLetters) : UpperLetters[k] = c
    THEN LowerLetters[CHOOSE k \in 1..Len(UpperLetters) : UpperLetters[k] = c]
    ELSE c

Lower(s) == [i \in 1..Len(s) |-> LowerChar(s[i])]

IsSpace(c) == c \in {" ", "\t", "\n", "\r"}

\* Python's s.rstrip(): trailing whitespace removed.
RECURSIVE RStrip(_)
RStrip(s) ==
    IF s # <<>> /\ IsSpace(s[Len(s)]) THEN RStrip(SubSeq(s, 1, Len(s) - 1))
    ELSE s

\* Python's s.rstrip(c) for one character c.
RECURSIVE RStripChar(_, _)
RStripChar(s, c) ==
    IF s # <<>> /\ s[Len(s)] = c THEN RStripChar(SubSeq(s, 1, Len(s) - 1), c)
    ELSE s

RECURSIVE LStrip(_)
LStrip(s) == IF s # <<>> /\ IsSpace(s[1]) THEN LStrip(Tail(s)) ELSE s

\* Python's s.strip().
Strip(s) == LStrip(RStrip(s))

RECURSIVE Flatten(_)
Flatten(ss) == IF ss = <<>> THEN <<>> ELSE Head(ss) \o Flatten(Tail(ss))

----------------------------------------------------------------------------
(* Lever: the link processor.                                              *)

\* Lever.__init__: url='lever.co'.
LeverUrl == <<"l","e","v","e","r",".","c","o">>

\* The literal of _validate_link.
JobsPrefix ==
    <<"h","t","t","p","s",":","/","/","j","o","b","s",".">> \o LeverUrl \o <<"/">>

QueryMarker == <<"/","?","q","=">>

ApplyWord == <<"a","p","p","l","y">>

\* if link: (None and '' are falsy).
Truthy(link) == link # None /\ link # <<>>

\* _validate_link without its query-marker test.
ValidateLinkNoQuery(link) ==
    /\ Truthy(link)
    /\ Len(link) > Len(LeverUrl)
    /\ Contains(Slice(link, 1, Len(LeverUrl)), LeverUrl)
    /\ Len(Split(Replace(link, JobsPrefix, <<>>), "/")) > 1

ValidateLink(link) ==
    IF Truthy(link)
    THEN IF Len(link) > Len(LeverUrl)
         THEN IF Contains(Slice(link, 1, Len(LeverUrl)), LeverUrl)
              THEN IF ~Contains(link, QueryMarker)
                   THEN IF Len(Split(Replace(link, JobsPrefix, <<>>), "/")) > 1
                        THEN TRUE
                        ELSE FALSE
                   ELSE FALSE
              ELSE FALSE
         ELSE FALSE
    ELSE FALSE

\* _process_links appending '/apply' whatever the link ends in.
LinkRecordAlwaysSlash(iLink) ==
    IF Lower(Last(Split(iLink, "/"))) # ApplyWord
    THEN [desc  |-> iLink, apply |-> iLink \o <<"/">> \o ApplyWord]
    ELSE [apply |-> iLink, desc  |-> Replace(iLink, ApplyWord, <<>>)]

\* The record _process_links builds for one valid link.
LinkRecord(iLink) ==
    IF Lower(Last(Split(iLink, "/"))) # ApplyWord
    THEN [desc  |-> iLink,
          apply |-> (IF Last(iLink) # "/" THEN iLink \o <<"/">> ELSE iLink)
                    \o ApplyWord]
    ELSE [apply |-> iLink,
          desc  |-> Replace(iLink, ApplyWord, <<>>)]

RECURSIVE ProcessLinks(_)
ProcessLinks(links) ==
    IF links = <<>> THEN <<>>
    ELSE (IF ValidateLink(Head(links)) = TRUE
          THEN <<LinkRecord(Head(links))>>
          ELSE <<>>) \o ProcessLinks(Tail(links))


----------------------------------------------------------------------------
(* Lever: the location classifier.                                         *)

\* Location tokens of the model, lowercase as _parse_location_info makes them.
t_ca == <<"c","a">>
t_de == <<"d","e">>
t_uk == <<"u","k">>
t_germany == <<"g","e","r","m","a","n","y">>
t_georgia == <<"g","e","o","r","g","i","a">>
t_texas == <<"t","e","x","a","s">>
t_austin == <<"a","u","s","t","i","n">>
t_paris == <<"p","a","r","i","s">>
t_berlin == <<"b","e","r","l","i","n">>
t_remote == <<"r","e","m","o","t","e">>

\* The reference tables save_job_info loads from files/helpers/*.csv.  Georgia
\* is a country and a state, Paris a city in and outside the US.
RefTables ==
    [us_states_abbreviated |-> {t_ca, t_de},
     foreign_countries     |-> {t_germany, t_georgia, t_uk},
     us_states_full        |-> {t_texas, t_georgia},
     us_cities             |-> {t_austin, t_paris},
     non_us_cities         |-> {t_berlin, t_paris}]

\* bool(np.where(array == value_to_check)[0].size)
CheckIfExistsInArray(value_to_check, array) == value_to_check \in array

\* _validate_location_in_usa with the full-state test moved before the
\* foreign-country test.
RECURSIVE ValidateLocationStateFirst(_, _)
ValidateLocationStateFirst(locations, t) ==
    IF locations = <<>> THEN "None"
    ELSE LET iLocation == Head(locations) IN
         IF Len(iLocation) = 2
            /\ CheckIfExistsInArray(iLocation, t.us_states_abbreviated)
         THEN "True"
         ELSE IF CheckIfExistsInArray(iLocation, t.us_states_full) THEN "True"
         ELSE IF CheckIfExistsInArray(iLocation, t.foreign_countries) THEN "False"
         ELSE IF CheckIfExistsInArray(iLocation, t.us_cities) THEN "True"
         ELSE IF CheckIfExistsInArray(iLocation, t.non_us_cities) THEN "False"
         ELSE ValidateLocationStateFirst(Tail(locations), t)

\* A classification that depends on the set of tokens alone: False when any
\* token is a foreign country or a non-US city, else True when any is a US
\* state or city.
ValidateLocationForeignWins(locations, t) ==
    LET toks == { locations[i] : i \in 1..Len(locations) } IN
    IF \E x \in toks : x \in t.foreign_countries \cup t.non_us_cities
    THEN "False"
    ELSE IF \E x \in toks :
               \/ Len(x) = 2 /\ x \in t.us_states_abbreviated
               \/ x \in t.us_states_full \cup t.us_cities
         THEN "True"
         ELSE "None"

\* _validate_location_in_usa: Python's True, False and None are "True",
\* "False" and "None".
RECURSIVE ValidateLocationInUsa(_, _)
ValidateLocationInUsa(locations, t) ==
    IF locations = <<>> THEN "None"
    ELSE LET iLocation == Head(locations) IN
         IF Len(iLocation) = 2
            /\ CheckIfExistsInArray(iLocation, t.us_states_abbreviated)
         THEN "True"
         ELSE IF CheckIfExistsInArray(iLocation, t.foreign_countries) THEN "False"
         ELSE IF CheckIfExistsInArray(iLocation, t.us_states_full) THEN "True"
         ELSE IF CheckIfExistsInArray(iLocation, t.us_cities) THEN "True"
         ELSE IF CheckIfExistsInArray(iLocation, t.non_us_cities) THEN "False"
         ELSE ValidateLocationInUsa(Tail(locations), t)

----------------------------------------------------------------------------
(* _LeverJob: the posting parser.                                          *)
(*                                                                         *)
(* A fetched page is what the parser reads of the BeautifulSoup document:  *)
(*   title, location, department, commitment, workplaceTypes: the text of  *)
(*     the <title> tag and of the div of that class, None when find()      *)
(*     returns None;                                                       *)
(*   sections: the divs of class 'section page-centered' in document       *)
(*     order, each with its data-qa attribute, the texts of its <li>       *)
(*     items and its own text.                                             *)
(* An optional number is <<>> when None and <<n>> when n.                  *)

NoNumber == <<>>

RemoteWord == <<"r","e","m","o","t","e">>

RemoteLocation == <<"R","e","m","o","t","e">>

\* datetime.today().strftime('%m/%d/%Y') on the day of the run.
Today == <<"1","1","/","0","1","/","2","0","2","6">>

\* _LeverJob.__init__
NewLeverJob(description_link, apply_link) ==
    [location |-> None, company |-> None, title |-> None, team |-> None,
     hours |-> None, wfh |-> None, min_salary |-> NoNumber,
     max_salary |-> NoNumber, desc |-> None, qual |-> None,
     posting |-> description_link, apply |-> apply_link, scraped |-> Today]

\* header_text.text.split('-')[0].strip()
TitleCompany(text) == Strip(Head(Split(text, "-")))

\* header_text.text.split('-')[-1].strip()
TitleTitle(text) == Strip(Last(Split(text, "-")))

\* 'remote' in header_text.text.lower()
TitleIsRemote(text) == Contains(Lower(text), RemoteWord)

\* find(...).text.rstrip('/')
RegionText(text) == RStripChar(text, "/")

ParseUsingTitleTag(self, page) ==
    IF page.title # None
    THEN [self EXCEPT !.company = TitleCompany(page.title),
                      !.title = TitleTitle(page.title),
                      !.location = IF TitleIsRemote(page.title)
                                   THEN RemoteLocation ELSE @]
    ELSE self

\* The try body raises AttributeError when find() returns None.
ParseLocation(self, page) ==
    IF self.location = None
    THEN IF page.location # None
         THEN [self EXCEPT !.location = RegionText(page.location)]
         ELSE [self EXCEPT !.location = None]
    ELSE self

ParseTeam(self, page) ==
    IF page.department # None
    THEN [self EXCEPT !.team = RegionText(page.department)]
    ELSE [self EXCEPT !.team = None]

ParseHours(self, page) ==
    IF page.commitment # None
    THEN [self EXCEPT !.hours = RegionText(page.commitment)]
    ELSE [self EXCEPT !.hours = None]

ParseWfh(self, page) ==
    IF page.workplaceTypes # None
    THEN [self EXCEPT !.wfh = RegionText(page.workplaceTypes)]
    ELSE [self EXCEPT !.wfh = None]

\* j.replace('\\xa0', ' ').replace('[', '').replace(']', ''): the first
\* literal is the four characters backslash, x, a, 0.
CleanItem(j) ==
    Replace(Replace(Replace(j, <<"\\","x","a","0">>, <<" ">>), <<"[">>, <<>>),
            <<"]">>, <<>>)

\* The comprehension of _clean_desc_and_qual: the length test is on the item
\* text as found, the replacements on the items kept.
RECURSIVE RawStrings(_)
RawStrings(items) ==
    IF items = <<>> THEN <<>>
    ELSE (IF Len(Head(items)) > 3 THEN <<CleanItem(Head(items))>> ELSE <<>>)
         \o RawStrings(Tail(items))

RECURSIVE JoinClean(_)
JoinClean(raw_string) ==
    IF raw_string = <<>> THEN <<>>
    ELSE Replace(Head(raw_string), <<"\"">>, <<>>) \o <<" ">>
         \o JoinClean(Tail(raw_string))

CleanDescAndQual(items) == JoinClean(RawStrings(items))

\* _parse_desc_and_qual with both fields in one try block.
ParseDescAndQualOneTry(self, page) ==
    IF Len(page.sections) >= 3
    THEN [self EXCEPT !.desc = CleanDescAndQual(page.sections[2].items),
                      !.qual = CleanDescAndQual(page.sections[3].items)]
    ELSE [self EXCEPT !.desc = None, !.qual = None]

\* posting_info[1] and posting_info[2] raise IndexError when the list is
\* shorter; each has its own try block.
ParseDescAndQual(self, page) ==
    [self EXCEPT
        !.desc = IF Len(page.sections) >= 2
                 THEN CleanDescAndQual(page.sections[2].items) ELSE None,
        !.qual = IF Len(page.sections) >= 3
                 THEN CleanDescAndQual(page.sections[3].items) ELSE None]

Digits == <<"0","1","2","3","4","5","6","7","8","9">>

IsDigit(c) == \E d \in 1..10 : Digits[d] = c

DigitValue(c) == (CHOOSE d \in 1..10 : Digits[d] = c) - 1

\* float(s) on the strings of the model: a non-empty run of digits is a
\* number, anything else raises ValueError.
FloatParses(s) == s # <<>> /\ \A i \in 1..Len(s) : IsDigit(s[i])

RECURSIVE FloatValue(_)
FloatValue(s) ==
    IF s = <<>> THEN 0
    ELSE 10 * FloatValue(SubSeq(s, 1, Len(s) - 1)) + DigitValue(s[Len(s)])

\* i.replace(',', '').replace('$', '').replace('.', '').replace('-', '')
MoneyDigits(i) ==
    Replace(Replace(Replace(Replace(i, <<",">>, <<>>), <<"$">>, <<>>),
                    <<".">>, <<>>), <<"-">>, <<>>)

\* The tokens of money_string.text.split(' ') that contain '$'.
RECURSIVE MoneyTokens(_)
MoneyTokens(tokens) ==
    IF tokens = <<>> THEN <<>>
    ELSE (IF Contains(Head(tokens), <<"$">>) THEN <<Head(tokens)>> ELSE <<>>)
         \o MoneyTokens(Tail(tokens))

\* _clean_money_string: [raised |-> TRUE] when a float() raises, else the list.
CleanMoneyString(text) ==
    LET toks == MoneyTokens(Split(text, " ")) IN
    IF \A k \in 1..Len(toks) : FloatParses(MoneyDigits(toks[k]))
    THEN [raised |-> FALSE,
          list |-> [k \in 1..Len(toks) |-> FloatValue(MoneyDigits(toks[k]))]]
    ELSE [raised |-> TRUE, list |-> <<>>]

\* A sort that leaves the list as it is.
SortAsGiven(list) == list

\* list.sort(reverse=True)
RECURSIVE SortReverse(_)
SortReverse(list) ==
    IF list = <<>> THEN <<>>
    ELSE LET m == CHOOSE i \in 1..Len(list) :
                      \A j \in 1..Len(list) : list[i] >= list[j]
         IN <<list[m]>> \o
            SortReverse([k \in 1..(Len(list) - 1) |->
                            IF k < m THEN list[k] ELSE list[k + 1]])

\* find('div', {'class': 'section page-centered', 'data-qa': qa}): the first
\* such section, None (here 0) when there is none.
FindSection(page, qa) ==
    IF \E k \in 1..Len(page.sections) : page.sections[k].qa = qa
    THEN CHOOSE k \in 1..Len(page.sections) :
            /\ page.sections[k].qa = qa
            /\ \A j \in 1..(k - 1) : page.sections[j].qa # qa
    ELSE 0

ParseSalary(self, page) ==
    LET potential_salary == FindSection(page, "salary-range")
        closing_paragraph == FindSection(page, "closing-description")
        salary ==
            IF potential_salary # 0
            THEN CleanMoneyString(page.sections[potential_salary].text)
            ELSE IF closing_paragraph # 0
                 THEN CleanMoneyString(page.sections[closing_paragraph].text)
                 ELSE [raised |-> FALSE, list |-> <<>>]
    IN  IF salary.raised
        THEN [self EXCEPT !.max_salary = NoNumber, !.min_salary = NoNumber]
        ELSE IF Len(salary.list) > 1
             THEN [self EXCEPT !.max_salary = <<SortReverse(salary.list)[1]>>,
                               !.min_salary = <<SortReverse(salary.list)[2]>>]
             ELSE self

\* _record_of_details
RecordOfDetails(self) ==
    [company |-> self.company, title |-> self.title, team |-> self.team,
     location |-> self.location, hours |-> self.hours, wfh |-> self.wfh,
     min_salary |-> self.min_salary, max_salary |-> self.max_salary,
     desc |-> self.desc, qual |-> self.qual, posting |-> self.posting,
     apply |-> self.apply, scraped |-> self.scraped, applied |-> FALSE]

\* _LeverJob(page, desc, apply).export_posting_info()
ExportPostingInfo(page, description_link, apply_link) ==
    RecordOfDetails(
      ParseSalary(
        ParseDescAndQual(
          ParseWfh(
            ParseHours(
              ParseTeam(
                ParseLocation(
                  ParseUsingTitleTag(NewLeverJob(description_link, apply_link),
                                     page),
                  page), page), page), page), page), page))

----------------------------------------------------------------------------
(* Lever.save_job_info: the location gate and the record store.            *)

\* The orders in which a set can be iterated.
Orders(S) == { f \in [1..Cardinality(S) -> S] : \A i, j \in DOMAIN f : f[i] = f[j] => i = j }

RECURSIVE NonEmptyLower(_)
NonEmptyLower(list) ==
    IF list = <<>> THEN <<>>
    ELSE (IF Head(list) # <<>> THEN <<Lower(Head(list))>> ELSE <<>>)
         \o NonEmptyLower(Tail(list))

\* _parse_location_info: the values it can return, one for each order in
\* which the set of raw tokens is iterated; found is FALSE for None (find()
\* returned None and .text raised).
ParseLocationInfo(page) ==
    IF page.location = None
    THEN { [found |-> FALSE, tokens |-> <<>>] }
    ELSE LET raw == Split(Replace(page.location, <<",">>, <<>>), " ")
             S == { raw[k] : k \in 1..Len(raw) }
         IN { [found |-> TRUE, tokens |-> NonEmptyLower(o)] : o \in Orders(S) }

\* The gate letting through every posting not classified False.
QualifiesUnlessFalse(view) ==
    /\ view.ok
    /\ view.loc.found
    /\ ValidateLocationInUsa(view.loc.tokens, RefTables) # "False"

\* The three nested tests of the loop of save_job_info on what was fetched
\* for one job: view.ok is `job_page_source is not None`, view.loc the value
\* of _parse_location_info.
Qualifies(view) ==
    /\ view.ok
    /\ view.loc.found
    /\ ValidateLocationInUsa(view.loc.tokens, RefTables) = "True"

\* The loop of save_job_info giving up at the first job whose page is not
\* fetched.
RECURSIVE CollectJobInfoAbort(_, _, _)
CollectJobInfoAbort(jobs, views, k) ==
    IF k > Len(jobs) \/ ~views[k].ok THEN <<>>
    ELSE (IF Qualifies(views[k])
          THEN << [job |-> k,
                   rec |-> ExportPostingInfo(views[k].page, jobs[k].desc,
                                             jobs[k].apply)] >>
          ELSE <<>>) \o CollectJobInfoAbort(jobs, views, k + 1)

\* The loop of save_job_info from job k on: job_info, and beside each record
\* the position of the job it was made from.
RECURSIVE CollectJobInfo(_, _, _)
CollectJobInfo(jobs, views, k) ==
    IF k > Len(jobs) THEN <<>>
    ELSE (IF Qualifies(views[k])
          THEN << [job |-> k,
                   rec |-> ExportPostingInfo(views[k].page, jobs[k].desc,
                                             jobs[k].apply)] >>
          ELSE <<>>) \o CollectJobInfo(jobs, views, k + 1)

\* A row of main.csv: the header row, or the row of one record.
BlankRecord == RecordOfDetails(NewLeverJob(None, None))

HeaderRow == [header |-> TRUE, rec |-> BlankRecord]

DataRows(job_info) ==
    [i \in 1..Len(job_info) |-> [header |-> FALSE, rec |-> job_info[i].rec]]

\* The end of save_job_info writing whenever there is a record at all.
WriteJobInfoFromOne(st, job_info) ==
    IF Len(job_info) > 0
    THEN IF ~st.exists
         THEN [exists |-> TRUE, rows |-> <<HeaderRow>> \o DataRows(job_info)]
         ELSE [exists |-> TRUE, rows |-> st.rows \o DataRows(job_info)]
    ELSE st

\* The end of save_job_info: to_csv in mode 'x' with the header, which raises
\* when main.csv exists, and then to_csv in mode 'a' without the header.
WriteJobInfo(st, job_info) ==
    IF Len(job_info) > 1
    THEN IF ~st.exists
         THEN [exists |-> TRUE, rows |-> <<HeaderRow>> \o DataRows(job_info)]
         ELSE [exists |-> TRUE, rows |-> st.rows \o DataRows(job_info)]
    ELSE st

----------------------------------------------------------------------------
(* Lever.clean_scraped_links and the Bot.                                  *)

\* _write_links_to_history with the two lines of a record exchanged.
RECURSIVE WriteLinksDescFirst(_, _)
WriteLinksDescFirst(file, links) ==
    IF links = <<>> THEN file
    ELSE WriteLinksDescFirst(file \o <<Head(links).desc, Head(links).apply>>,
                             Tail(links))

\* _write_links_to_history: the file opened in mode 'a', as its lines.
RECURSIVE WriteLinksToHistory(_, _)
WriteLinksToHistory(file, links) ==
    IF links = <<>> THEN file
    ELSE WriteLinksToHistory(file \o <<Head(links).apply, Head(links).desc>>,
                             Tail(links))

\* Bot.__init__: [line.rstrip() for line in file]
ReadHistory(file) == [i \in 1..Len(file) |-> RStrip(file[i])]

InList(x, list) == \E i \in 1..Len(list) : list[i] = x

\* Bot._get_job_links: the links not in _previously_scraped_links.
RECURSIVE NewLinks(_, _)
NewLinks(scraped_links, previously) ==
    IF scraped_links = <<>> THEN <<>>
    ELSE (IF ~InList(Head(scraped_links), previously)
          THEN <<Head(scraped_links)>> ELSE <<>>)
         \o NewLinks(Tail(scraped_links), previously)

----------------------------------------------------------------------------
(* State shapes shared by the specifications.                              *)

NoBot == [alive |-> FALSE, prev |-> <<>>, hasJobs |-> FALSE, jobs |-> <<>>]

NoStore == [exists |-> FALSE, rows |-> <<>>]

\* main.csv present with nothing in it.
EmptyStore == [exists |-> TRUE, rows |-> <<>>]

NoBatch == [n |-> 0, jobs |-> <<>>, views |-> <<>>, info |-> <<>>,
            before |-> NoStore]

NoTrace == [gets |-> 0, links |-> <<>>, before |-> <<>>, once |-> TRUE,
            earlier |-> {}, current |-> {}, again |-> {}]

\* What is fetched for a job whose page cannot be fetched.
NoPage == [title |-> None, location |-> None, department |-> None,
           commitment |-> None, workplaceTypes |-> None, sections |-> <<>>]

FailedView == [ok |-> FALSE, page |-> NoPage,
               loc |-> [found |-> FALSE, tokens |-> <<>>]]

PageAt(location) ==
    [title |-> <<"A","c","m","e"," ","-"," ","D","e","v">>, location |-> location,
     department |-> None, commitment |-> None, workplaceTypes |-> None,
     sections |-> <<>>]

\* Pages a posting's url can lead to.
PipelinePages ==
    { PageAt(None), PageAt(<<"A","u","s","t","i","n">>), PageAt(<<"B","e","r","l","i","n",","," ","C","A">>),
      PageAt(<<"R","e","m","o","t","e">>) }

\* What the loop of save_job_info can get for one job: no page
\* (_get_job_desc_page_source returned None), or a page and a value of
\* _parse_location_info for it.
PageViews ==
    {FailedView} \cup
    UNION { { [ok |-> TRUE, page |-> p, loc |-> l] : l \in ParseLocationInfo(p) } :
              p \in PipelinePages }

LinkJ == LeverUrl \o <<"/","j">>

\* A link whose href ends in a space.
LinkK == LeverUrl \o <<"/","k"," ">>

LinkM == LeverUrl \o <<"/","m","/","a","p","p","l","y">>

\* The description link of the posting whose application link is LinkM.
LinkMDesc == LeverUrl \o <<"/","m","/">>

\* A posting as Lever serves it: it does not start with 'lever.co'.
LinkFull == JobsPrefix \o <<"a","c","m","e","/","1">>

\* The link records of the postings of the model, and their description urls.
SaveJobs == { LinkRecord(LinkJ), LinkRecord(LinkK), LinkRecord(LinkM) }

DescUrls == { r.desc : r \in SaveJobs }

\* Every fetch fails.
NoWeb == [u \in DescUrls |-> FailedView]

\* No Browser constructed and no table read.  session is "none", "open" or
\* "quit"; table is the DataFrame scraped_jobs and todo the urls the apply
\* loop has still to visit; quits, afterQuit, url, before and clean are
\* bookkeeping: the quit() calls, whether an operation was invoked on a
\* Browser after quit(), the url and table of the last
\* record_job_as_applied_to, and the urls whose application had no failing
\* step.
NoDemo == [session |-> "none", quits |-> 0, afterQuit |-> FALSE,
           loaded |-> FALSE, table |-> <<>>, todo |-> <<>>,
           url |-> None, before |-> <<>>, clean |-> {}]

\* The pipeline at rest: what a pure-function specification leaves alone.
PipelineIdle ==
    /\ history = <<>>
    /\ bot = NoBot
    /\ store = NoStore
    /\ web = NoWeb
    /\ batch = NoBatch
    /\ trace = NoTrace
    /\ demo = NoDemo

----------------------------------------------------------------------------
(* The operations of the Bot and of Lever.save_job_info.                   *)

\* Bot(search_engine, job_site).  trace keeps, beside the code's state, the
\* raw links that made a record under an earlier Bot (earlier) and under
\* this one (current), those that made one under both (again), and whether
\* every Bot so far called get_jobs at most once (once).
NewBot ==
    /\ bot' = [alive |-> TRUE, prev |-> ReadHistory(history),
               hasJobs |-> FALSE, jobs |-> <<>>]
    /\ trace' = [trace EXCEPT !.earlier = @ \cup trace.current,
                              !.current = {}]
    /\ pc' = "bot"
    /\ UNCHANGED <<arg, res, history, store, web, batch, demo>>

\* bot.get_jobs(...), the search having returned scraped_links: the filter of
\* _get_job_links, then clean_scraped_links (_process_links and
\* _write_links_to_history).
GetJobs(scraped_links) ==
    /\ bot.alive
    /\ trace.gets < MaxGets
    /\ LET new_links == NewLinks(scraped_links, bot.prev)
           clean_links == ProcessLinks(new_links)
           made == { new_links[i] : i \in { j \in 1..Len(new_links) :
                                              ValidateLink(new_links[j]) } }
       IN /\ bot' = [bot EXCEPT !.hasJobs = TRUE, !.jobs = clean_links]
          /\ history' = WriteLinksToHistory(history, clean_links)
          /\ trace' = [trace EXCEPT !.gets = @ + 1,
                                    !.once = @ /\ ~bot.hasJobs,
                                    !.links = scraped_links,
                                    !.before = history,
                                    !.current = @ \cup made,
                                    !.again = @ \cup (made \cap trace.earlier)]
    /\ pc' = "got"
    /\ UNCHANGED <<arg, res, store, web, batch, demo>>

\* Lever.save_job_info(jobs): the fetch of a job gives what the web holds at
\* its description url.
SaveJobInfo(jobs) ==
    /\ batch.n < MaxBatches
    /\ LET views == [k \in 1..Len(jobs) |-> web[jobs[k].desc]]
           job_info == CollectJobInfo(jobs, views, 1)
       IN /\ store' = WriteJobInfo(store, job_info)
          /\ batch' = [n |-> batch.n + 1, jobs |-> jobs, views |-> views,
                       info |-> job_info, before |-> store]
    /\ pc' = "saved"
    /\ UNCHANGED <<arg, res, history, bot, web, trace, demo>>

\* bot.save_job_info(): self.jobs exists only after get_jobs.
BotSaveJobInfo ==
    /\ bot.hasJobs
    /\ SaveJobInfo(bot.jobs)

----------------------------------------------------------------------------
(* Spec: Bots are constructed, search and save.                            *)

\* The hrefs a search can return: a link ending in a space, the application
\* link and the description link of one posting, and a link that is dropped.
PipelineLinks == {LinkK, LinkM, LinkMDesc, LinkFull}

\* _scrape_job_postings returns a set: any links, in any order.
ScrapedLists == UNION { Orders(S) : S \in SUBSET PipelineLinks }

\* main.csv as an earlier batch of two records left it.
WrittenStore ==
    WriteJobInfo(NoStore,
        << [job |-> 1, rec |-> ExportPostingInfo(PageAt(<<"A","u","s","t","i","n">>), LinkK,
                                                 LinkK \o <<"/">> \o ApplyWord)],
           [job |-> 2, rec |-> ExportPostingInfo(PageAt(<<"A","u","s","t","i","n">>), LinkJ,
                                                 LinkJ \o <<"/">> \o ApplyWord)] >>)

Init ==
    /\ pc = "start"
    /\ arg = None
    /\ res = None
    /\ history = <<>>
    /\ bot = NoBot
    /\ store \in {NoStore, EmptyStore, WrittenStore}
    /\ web \in [DescUrls -> PageViews]
    /\ batch = NoBatch
    /\ trace = NoTrace
    /\ demo = NoDemo

SearchAndClean == \E scraped_links \in ScrapedLists : GetJobs(scraped_links)

Next == NewBot \/ SearchAndClean \/ BotSaveJobInfo

Spec == Init /\ [][Next]_vars

----------------------------------------------------------------------------
(* SpecRuns: Bots are constructed and search; nothing is saved or fetched. *)

InitRuns ==
    /\ pc = "start"
    /\ arg = None
    /\ res = None
    /\ PipelineIdle

NextRuns == NewBot \/ SearchAndClean

SpecRuns == InitRuns /\ [][NextRuns]_vars

----------------------------------------------------------------------------
(* SpecSave: Lever.save_job_info called on lists of link records.          *)

\* The lists of link records save_job_info is called with: the records of
\* any postings in any order, and what clean_scraped_links returns for the
\* links of a search.
JobLists ==
    UNION { Orders(S) : S \in SUBSET SaveJobs }
        \cup { ProcessLinks(links) : links \in ScrapedLists }

LeverSaveJobInfo == \E jobs \in JobLists : SaveJobInfo(jobs)

NextSave == LeverSaveJobInfo

SpecSave == Init /\ [][NextSave]_vars

----------------------------------------------------------------------------
(* demo.py: the Browser session and the apply loop.                        *)

\* Browser(): a session is opened.
NewBrowser ==
    /\ demo.session = "none"
    /\ demo' = [demo EXCEPT !.session = "open"]
    /\ pc' = "browser"
    /\ UNCHANGED <<arg, res, history, bot, store, web, batch, trace>>

\* web_driver.quit()
QuitBrowser ==
    /\ demo.session # "none"
    /\ demo' = [demo EXCEPT !.session = "quit", !.quits = @ + 1]
    /\ pc' = IF demo.quits = 0 THEN "quit" ELSE "done"
    /\ UNCHANGED <<arg, res, history, bot, store, web, batch, trace>>

\* A text field as pd.read_csv reads it: an empty field is NaN.
ReadCsvField(v) == IF v = <<>> THEN None ELSE v

\* A row of main.csv as pd.read_csv reads it.
ReadCsvRow(rec) ==
    [rec EXCEPT !.company = ReadCsvField(@), !.title = ReadCsvField(@),
                !.team = ReadCsvField(@), !.location = ReadCsvField(@),
                !.hours = ReadCsvField(@), !.wfh = ReadCsvField(@),
                !.desc = ReadCsvField(@), !.qual = ReadCsvField(@),
                !.posting = ReadCsvField(@), !.apply = ReadCsvField(@),
                !.scraped = ReadCsvField(@)]

\* Whether lines 33-34 of demo.py go through: read_csv raises on a missing or
\* empty file, and query('applied == False') on a file whose first row is
\* not the header.
Readable(st) == st.exists /\ st.rows # <<>> /\ st.rows[1].header

\* pd.read_csv('files/output/main.csv'): the rows under the first.
ReadCsv(st) == [i \in 1..(Len(st.rows) - 1) |-> ReadCsvRow(st.rows[i + 1].rec)]

\* not_applied_to_yet['apply'].unique(): the apply urls of the rows not
\* applied to, each once, in order of first appearance.
RECURSIVE NotAppliedToYet(_, _)
NotAppliedToYet(table, seen) ==
    IF table = <<>> THEN <<>>
    ELSE IF ~Head(table).applied /\ ~InList(Head(table).apply, seen)
         THEN <<Head(table).apply>>
              \o NotAppliedToYet(Tail(table), seen \o <<Head(table).apply>>)
         ELSE NotAppliedToYet(Tail(table), seen)

\* Lines 33-34 of demo.py.
LoadTable ==
    /\ ~demo.loaded
    /\ IF Readable(store)
       THEN /\ demo' = [demo EXCEPT !.loaded = TRUE,
                                    !.table = ReadCsv(store),
                                    !.todo = NotAppliedToYet(ReadCsv(store), <<>>)]
            /\ pc' = "loaded"
       ELSE /\ pc' = "crashed"
            /\ UNCHANGED demo
    /\ UNCHANGED <<arg, res, history, bot, store, web, batch, trace>>

\* record_job_as_applied_to setting applied on every row.
RecordAllAsAppliedTo(url, scraped_jobs) ==
    [i \in 1..Len(scraped_jobs) |-> [scraped_jobs[i] EXCEPT !.applied = TRUE]]

\* Bot.record_job_as_applied_to(url, scraped_jobs)
RecordJobAsAppliedTo(url, scraped_jobs) ==
    [i \in 1..Len(scraped_jobs) |->
        IF scraped_jobs[i].apply = url
        THEN [scraped_jobs[i] EXCEPT !.applied = TRUE]
        ELSE scraped_jobs[i]]

\* How the steps of _apply_to_job can go: each raises or not.
Outcomes == [navigate : BOOLEAN, upload : BOOLEAN, fill : BOOLEAN,
             submit : BOOLEAN]

\* One turn of the apply loop (lines 36-38 of demo.py): apply_to_job(url) and
\* then record_job_as_applied_to(url).  navigate is not wrapped, so what it
\* raises ends the script; on a Browser that was quit it always raises.
\* Every later step is inside _wrap_try_catch, which prints what was raised
\* and returns.
ApplyLoopStep ==
    /\ demo.loaded
    /\ demo.todo # <<>>
    /\ LET url == Head(demo.todo) IN
       IF demo.session # "open"
       THEN /\ demo' = [demo EXCEPT !.afterQuit = TRUE]
            /\ pc' = "crashed"
       ELSE \E o \in Outcomes :
               IF ~o.navigate
               THEN /\ pc' = "crashed"
                    /\ UNCHANGED demo
               ELSE /\ demo' = [demo EXCEPT
                          !.table = RecordJobAsAppliedTo(url, demo.table),
                          !.todo = Tail(@),
                          !.url = url,
                          !.before = demo.table,
                          !.clean = IF o.upload /\ o.fill /\ o.submit
                                    THEN @ \cup {url} ELSE @]
                    /\ pc' = "applied"
    /\ UNCHANGED <<arg, res, history, bot, store, web, batch, trace>>

\* scraped_jobs.to_csv('files/output/main.csv', index=False), after the loop.
WriteTable ==
    /\ demo.loaded
    /\ demo.todo = <<>>
    /\ store' = [exists |-> TRUE,
                 rows |-> <<HeaderRow>> \o
                          [i \in 1..Len(demo.table) |->
                              [header |-> FALSE, rec |-> demo.table[i]]]]
    /\ demo' = [demo EXCEPT !.loaded = FALSE, !.table = <<>>]
    /\ pc' = "written"
    /\ UNCHANGED <<arg, res, history, bot, web, batch, trace>>

\* Every posting url leading to the same thing.
WebOf(view) == [u \in DescUrls |-> view]

UniformWebs == { WebOf(view) : view \in PageViews }

\* main.csv with every row applied to.
AppliedStore ==
    [exists |-> TRUE,
     rows |-> [i \in 1..Len(WrittenStore.rows) |->
                 IF WrittenStore.rows[i].header THEN WrittenStore.rows[i]
                 ELSE [header |-> FALSE,
                       rec |-> [WrittenStore.rows[i].rec
                                   EXCEPT !.applied = TRUE]]]]

----------------------------------------------------------------------------
(* SpecDemo: demo.py from its first line to its last.                      *)

InitDemo ==
    /\ pc = "start"
    /\ arg = None
    /\ res = None
    /\ history = <<>>
    /\ bot = NoBot
    /\ store \in {NoStore, EmptyStore, WrittenStore, AppliedStore}
    /\ web \in UniformWebs
    /\ batch = NoBatch
    /\ trace = NoTrace
    /\ demo = NoDemo

\* Line 9.
DemoBrowser == pc = "start" /\ NewBrowser

\* Line 12.
DemoBot == pc = "browser" /\ NewBot

\* Line 17.
DemoGetJobs == pc = "bot" /\ SearchAndClean

\* Line 23.
DemoSaveJobInfo == pc = "got" /\ BotSaveJobInfo

\* Line 24.
DemoQuit == pc = "saved" /\ QuitBrowser

\* Lines 33-34.
DemoLoad == pc = "quit" /\ LoadTable

\* Lines 36-38.
DemoApply == pc \in {"loaded", "applied"} /\ ApplyLoopStep

\* Line 40.
DemoWrite == pc \in {"loaded", "applied"} /\ WriteTable

\* Line 42.
DemoQuitAgain == pc = "written" /\ QuitBrowser

NextDemo ==
    \/ DemoBrowser
    \/ DemoBot
    \/ DemoGetJobs
    \/ DemoSaveJobInfo
    \/ DemoQuit
    \/ DemoLoad
    \/ DemoApply
    \/ DemoWrite
    \/ DemoQuitAgain

SpecDemo == InitDemo /\ [][NextDemo]_vars

----------------------------------------------------------------------------
(* SpecApply: save batches and apply loops with a Browser that is open.    *)

InitApply ==
    /\ pc = "start"
    /\ arg = None
    /\ res = None
    /\ history = <<>>
    /\ bot = NoBot
    /\ store \in {NoStore, EmptyStore, WrittenStore}
    /\ web \in UniformWebs
    /\ batch = NoBatch
    /\ trace = NoTrace
    /\ demo = [NoDemo EXCEPT !.session = "open"]

\* A batch is saved while no apply loop is under way.
ApplySave == ~demo.loaded /\ pc # "crashed" /\ LeverSaveJobInfo

ApplyLoad == pc # "crashed" /\ LoadTable

ApplyStep == pc # "crashed" /\ ApplyLoopStep

ApplyWrite == pc # "crashed" /\ WriteTable

NextApply == ApplySave \/ ApplyLoad \/ ApplyStep \/ ApplyWrite

SpecApply == InitApply /\ [][NextApply]_vars

----------------------------------------------------------------------------
(* SpecLinks: _validate_link and _process_links applied to one raw link.   *)

UrlHeads == { <<>>, LeverUrl, SubSeq(JobsPrefix, 1, Len(JobsPrefix) - 1) }

UrlMids == { <<"/">>, ApplyWord, <<"/","?">>, <<"q","=">>,
             SubSeq(JobsPrefix, 1, Len(JobsPrefix) - 1) }

UrlTails == { <<>>, <<"/">>, <<"/">> \o ApplyWord, <<"/","A","p","p","l","y">>,
              <<"/","A","P","P","L","Y">>, <<" ">> }

MidSeqs == UNION { [1..n -> UrlMids] : n \in 0..MaxMid }

\* The raw links a search can hand over: href values, or None for an anchor
\* without href.
RawLinks ==
    {None} \cup { h \o Flatten(m) \o t : h \in UrlHeads, m \in MidSeqs, t \in UrlTails }

InitLinks ==
    /\ pc = "link"
    /\ arg \in RawLinks
    /\ res = None
    /\ PipelineIdle

CallValidateLink ==
    /\ pc = "link"
    /\ res' = ValidateLink(arg)
    /\ pc' = "validated"
    /\ UNCHANGED <<arg, history, bot, store, web, batch, trace, demo>>

CallProcessLinks ==
    /\ pc = "link"
    /\ res' = ProcessLinks(<<arg>>)
    /\ pc' = "processed"
    /\ UNCHANGED <<arg, history, bot, store, web, batch, trace, demo>>

NextLinks == CallValidateLink \/ CallProcessLinks

SpecLinks == InitLinks /\ [][NextLinks]_vars


----------------------------------------------------------------------------
(* SpecClassify: _validate_location_in_usa applied to one token list.      *)

LocationTokens ==
    {t_ca, t_de, t_uk, t_germany, t_georgia, t_texas, t_austin, t_paris,
     t_berlin, t_remote}

TokenLists == UNION { [1..n -> LocationTokens] : n \in 0..MaxTokens }

InitClassify ==
    /\ pc = "tokens"
    /\ arg \in TokenLists
    /\ res = None
    /\ PipelineIdle

CallValidateLocation ==
    /\ pc = "tokens"
    /\ res' = ValidateLocationInUsa(arg, RefTables)
    /\ pc' = "classified"
    /\ UNCHANGED <<arg, history, bot, store, web, batch, trace, demo>>

NextClassify == CallValidateLocation

SpecClassify == InitClassify /\ [][NextClassify]_vars

----------------------------------------------------------------------------
(* SpecParse: export_posting_info applied to one fetched page.             *)

TitleTexts == { <<"A","c","m","e"," ","-"," ","D","e","v">>,
                <<"A","c","m","e"," ","-"," ","R","e","m","o","t","e"," ","D","e","v">> }

ListSection ==
    [qa |-> "", text |-> <<>>,
     items |-> << <<"a","b">>, <<"v","a","l","i","d"," ","t","e","x","t">>,
                  <<"[","b","r","a","c","k","e","t","e","d","]">>, <<"x">>,
                  <<"[","a","b","]">>, <<"s","a","y"," ","\"","h","i","\"">> >>]

SalarySection ==
    [qa |-> "salary-range", items |-> <<>>,
     text |-> <<"$","1","2","0",",","0","0","0","-"," ","$","1","5","0",",","0","0","0">>]

ClosingSection ==
    [qa |-> "closing-description", items |-> << <<"a","p","p","l","y"," ","n","o","w">> >>,
     text |-> <<"p","a","y"," ","$","5">>]

\* A '$' with no digits: float('') raises ValueError.
BadClosingSection ==
    [qa |-> "closing-description", items |-> <<>>,
     text |-> <<"$"," ","T","B","D">>]

\* Two amounts and a '$' token that is no number: float('US') raises.
MixedSalarySection ==
    [qa |-> "salary-range", items |-> <<>>,
     text |-> <<"$","7"," ","$","9"," ","U","S","$">>]

Sections == {ListSection, SalarySection, ClosingSection, BadClosingSection,
             MixedSalarySection}

SectionLists == UNION { [1..n -> Sections] : n \in 0..MaxSections }

Pages ==
    [title          : {None} \cup TitleTexts,
     location       : {None, <<"A","u","s","t","i","n",","," ","T","X","/">>},
     department     : {None, <<"E","n","g","/">>},
     commitment     : {None, <<"F","u","l","l","-","t","i","m","e">>},
     workplaceTypes : {None, <<"H","y","b","r","i","d">>},
     sections       : SectionLists]

SampleDesc == LeverUrl \o <<"/","a","c","m","e","/","1">>

SampleApply == SampleDesc \o <<"/">> \o ApplyWord

InitParse ==
    /\ pc = "page"
    /\ arg \in Pages
    /\ res = None
    /\ PipelineIdle

CallExportPostingInfo ==
    /\ pc = "page"
    /\ res' = ExportPostingInfo(arg, SampleDesc, SampleApply)
    /\ pc' = "parsed"
    /\ UNCHANGED <<arg, history, bot, store, web, batch, trace, demo>>

NextParse == CallExportPostingInfo

SpecParse == InitParse /\ [][NextParse]_vars

----------------------------------------------------------------------------
(* Claims about the link processor, checked under SpecLinks.               *)

StartsWith(s, p) == Len(s) >= Len(p) /\ SubSeq(s, 1, Len(p)) = p

EndsWith(s, p) == Len(s) >= Len(p) /\ SubSeq(s, Len(s) - Len(p) + 1, Len(s)) = p

\* s with p removed when s starts with p, and s itself otherwise.
StripPrefix(s, p) == IF StartsWith(s, p) THEN SubSeq(s, Len(p) + 1, Len(s)) ELSE s

\* The last '/'-separated segment of url is 'apply' in any letter case.
IsApplyLink(url) == Lower(Last(Split(url, "/"))) = ApplyWord

\* The conditions C4 lists, with `removed` the url after the removal of the
\* canonical prefix.
ValidConditions(url, removed) ==
    /\ url # None
    /\ url # <<>>
    /\ Len(url) > Len(LeverUrl)
    /\ StartsWith(url, LeverUrl)
    /\ ~Contains(url, QueryMarker)
    /\ Len(Split(removed, "/")) > 1

\* C4 as stated: validate(url, domain) is true if and only if url is
\* non-empty, longer than the domain, starts with the domain, holds no '/?q='
\* and, with the prefix 'https://jobs.lever.co/' stripped from its front,
\* splits on '/' into more than one segment.
C4_ValidateIffPrefixStripped ==
    pc = "validated" =>
        (res = TRUE <=>
            ValidConditions(arg, IF arg = None THEN arg ELSE StripPrefix(arg, JobsPrefix)))

\* C4 amended: the same equivalence with every occurrence of
\* 'https://jobs.lever.co/' removed from url, wherever it stands, before the
\* split on '/'.
C4_ValidateIffAllOccurrencesRemoved ==
    pc = "validated" =>
        /\ res \in BOOLEAN
        /\ res = TRUE <=>
            ValidConditions(arg, IF arg = None THEN arg ELSE Replace(arg, JobsPrefix, <<>>))

\* C4 witness: a link accepted although 'https://jobs.lever.co' occurs inside
\* it, and a link refused only because the removal leaves one segment.
C4_Witness ==
    /\ pc = "validated"
    /\ arg # None
    /\ Contains(arg, JobsPrefix)
    /\ StartsWith(arg, LeverUrl)
    /\ res = FALSE
    /\ ~Contains(arg, QueryMarker)

\* C5: a valid url whose last segment is not 'apply' (in any case) yields one
\* LinkRecord whose description_url is non-empty and whose application_url is
\* description_url + '/apply', with a single '/' when description_url already
\* ends in '/'.
C5_DescriptionLinkRecord ==
    (pc = "processed" /\ ValidateLink(arg) /\ ~IsApplyLink(arg)) =>
        /\ Len(res) = 1
        /\ res[1].desc # <<>>
        /\ res[1].desc # None
        /\ res[1].apply =
             IF EndsWith(res[1].desc, <<"/">>)
             THEN res[1].desc \o ApplyWord
             ELSE res[1].desc \o <<"/">> \o ApplyWord

\* C5 witness: a description link that already ends in '/' has been processed.
C5_Witness ==
    /\ pc = "processed"
    /\ ValidateLink(arg)
    /\ ~IsApplyLink(arg)
    /\ Len(res) = 1
    /\ EndsWith(res[1].desc, <<"/">>)
    /\ ~EndsWith(res[1].apply, <<"/","/">> \o ApplyWord)

\* C6 as stated: a valid url whose last segment is 'apply' in any letter case
\* yields application_url = url and description_url = url without that last
\* segment, every other part of url kept, so that application_url is
\* description_url + 'apply' up to the case of the segment.
C6_ApplyLinkRecord ==
    (pc = "processed" /\ ValidateLink(arg) /\ IsApplyLink(arg)) =>
        /\ Len(res) = 1
        /\ res[1].apply = arg
        /\ res[1].desc = SubSeq(arg, 1, Len(arg) - Len(ApplyWord))

\* The url paired with u in the record made from u.
Paired(u, record) == IF IsApplyLink(u) THEN record.desc ELSE record.apply

\* C7 as stated: for every url that validates, the paired url of the record
\* process makes from it validates too.
C7_RoundTrip ==
    (pc = "processed" /\ ValidateLink(arg)) =>
        /\ Len(res) = 1
        /\ ValidateLink(Paired(arg, res[1])) = TRUE

----------------------------------------------------------------------------
(* Claims about the location classifier, checked under SpecClassify.       *)

\* The verdict of the rules (a) to (e) on one token, "None" when no rule
\* applies to it.
TokenVerdict(tok, t) ==
    CASE Len(tok) = 2 /\ tok \in t.us_states_abbreviated -> "True"
      [] ~(Len(tok) = 2 /\ tok \in t.us_states_abbreviated)
         /\ tok \in t.foreign_countries -> "False"
      [] ~(Len(tok) = 2 /\ tok \in t.us_states_abbreviated)
         /\ tok \notin t.foreign_countries
         /\ tok \in t.us_states_full -> "True"
      [] ~(Len(tok) = 2 /\ tok \in t.us_states_abbreviated)
         /\ tok \notin t.foreign_countries
         /\ tok \notin t.us_states_full
         /\ tok \in t.us_cities -> "True"
      [] ~(Len(tok) = 2 /\ tok \in t.us_states_abbreviated)
         /\ tok \notin t.foreign_countries
         /\ tok \notin t.us_states_full
         /\ tok \notin t.us_cities
         /\ tok \in t.non_us_cities -> "False"
      [] OTHER -> "None"

\* Positions of the tokens some rule applies to.
Decisive(toks, t) == { i \in 1..Len(toks) : TokenVerdict(toks[i], t) # "None" }

\* C2: classify returns the verdict of the first token, in iteration order,
\* that any rule applies to, the rules tried on a token in the order
\* abbreviated state (2 letters), foreign country, full state, US city, non-US
\* city; with no such token it returns None.  <<ca>> gives True, <<germany>>
\* False and <<remote>> None.
C2_FirstMatchRuleOrder ==
    pc = "classified" =>
        /\ IF Decisive(arg, RefTables) = {}
           THEN res = "None"
           ELSE \E i \in Decisive(arg, RefTables) :
                   /\ \A j \in Decisive(arg, RefTables) : i <= j
                   /\ res = TokenVerdict(arg[i], RefTables)
        /\ arg = <<t_ca>> => res = "True"
        /\ arg = <<t_germany>> => res = "False"
        /\ arg = <<t_remote>> => res = "None"

\* C2 witness: a token no rule applies to came first, and the next one, a
\* name that is a foreign country and a US state, decided False.
C2_Witness ==
    /\ pc = "classified"
    /\ Len(arg) >= 2
    /\ arg[1] = t_remote
    /\ arg[2] = t_georgia
    /\ res = "False"

\* The orders in which the tokens of a list can be iterated.
Reorderings(toks) ==
    { [i \in 1..Len(toks) |-> toks[f[i]]] : f \in Orders(1..Len(toks)) }

\* C16: order dependence.  For tokens of which one qualifies (classify
\* accepts it) and one disqualifies (classify rejects it), classify returns
\* the verdict of whichever token with a verdict comes first, and there is an
\* order of the same tokens for which it returns True and one for which it
\* returns False.
C16_OrderDecides ==
    (/\ pc = "classified"
     /\ \E i \in 1..Len(arg) : TokenVerdict(arg[i], RefTables) = "True"
     /\ \E i \in 1..Len(arg) : TokenVerdict(arg[i], RefTables) = "False")
    =>
        /\ \E i \in Decisive(arg, RefTables) :
              /\ \A j \in Decisive(arg, RefTables) : i <= j
              /\ res = TokenVerdict(arg[i], RefTables)
        /\ \E p \in Reorderings(arg) :
              ValidateLocationInUsa(p, RefTables) = "True"
        /\ \E p \in Reorderings(arg) :
              ValidateLocationInUsa(p, RefTables) = "False"

\* 'berlin' before 'ca' was classified False; the same two tokens with 'ca'
\* first are classified True.
C16_Witness ==
    /\ pc = "classified"
    /\ arg = <<t_berlin, t_ca>>
    /\ res = "False"
    /\ <<t_ca, t_berlin>> \in Reorderings(arg)
    /\ ValidateLocationInUsa(<<t_ca, t_berlin>>, RefTables) = "True"

----------------------------------------------------------------------------
(* Claims about the posting parser, checked under SpecParse.               *)

\* The text the salary step reads: the salary-range block if there is one,
\* else the closing-description block, else None.
SalaryText(page) ==
    IF FindSection(page, "salary-range") # 0
    THEN page.sections[FindSection(page, "salary-range")].text
    ELSE IF FindSection(page, "closing-description") # 0
         THEN page.sections[FindSection(page, "closing-description")].text
         ELSE None

\* Which of the extraction steps fail on a page.
TitleFails(page) == page.title = None
LocationFails(page) == page.location = None
TeamFails(page) == page.department = None
HoursFails(page) == page.commitment = None
WfhFails(page) == page.workplaceTypes = None
DescFails(page) == Len(page.sections) < 2
QualFails(page) == Len(page.sections) < 3
SalaryFails(page) ==
    SalaryText(page) # None /\ CleanMoneyString(SalaryText(page)).raised

\* The numbers a salary step that does not fail extracts.
SalaryNumbers(page) ==
    IF SalaryText(page) = None THEN <<>>
    ELSE SortReverse(CleanMoneyString(SalaryText(page)).list)

\* C10: whatever steps fail, export_posting_info returns a record in which
\* the fields of each failed step are None and the fields of every other step
\* hold what that step extracted; a field of a step that did not fail is None
\* only where the step found nothing to extract (fewer than two salary
\* numbers).  location is owned by the title step when the title says
\* 'remote', else by the location step.
C10_ParserFaultIsolation ==
    pc = "parsed" =>
        /\ IF TitleFails(arg)
           THEN res.company = None /\ res.title = None
           ELSE /\ res.company = TitleCompany(arg.title) /\ res.company # None
                /\ res.title = TitleTitle(arg.title) /\ res.title # None
        /\ IF ~TitleFails(arg) /\ TitleIsRemote(arg.title)
           THEN res.location = RemoteLocation
           ELSE IF LocationFails(arg)
                THEN res.location = None
                ELSE res.location = RegionText(arg.location)
                     /\ res.location # None
        /\ IF TeamFails(arg) THEN res.team = None
           ELSE res.team = RegionText(arg.department) /\ res.team # None
        /\ IF HoursFails(arg) THEN res.hours = None
           ELSE res.hours = RegionText(arg.commitment) /\ res.hours # None
        /\ IF WfhFails(arg) THEN res.wfh = None
           ELSE res.wfh = RegionText(arg.workplaceTypes) /\ res.wfh # None
        /\ IF DescFails(arg) THEN res.desc = None
           ELSE res.desc = CleanDescAndQual(arg.sections[2].items)
                /\ res.desc # None
        /\ IF QualFails(arg) THEN res.qual = None
           ELSE res.qual = CleanDescAndQual(arg.sections[3].items)
                /\ res.qual # None
        /\ IF SalaryFails(arg) \/ Len(SalaryNumbers(arg)) < 2
           THEN res.max_salary = NoNumber /\ res.min_salary = NoNumber
           ELSE /\ res.max_salary = <<SalaryNumbers(arg)[1]>>
                /\ res.min_salary = <<SalaryNumbers(arg)[2]>>
        /\ res.posting = SampleDesc
        /\ res.apply = SampleApply
        /\ res.applied = FALSE

\* C10 witness: the title, location, qualification and salary steps failed,
\* the team, hours, remote-flag and description steps did not, and the record
\* holds the fields of exactly those.
C10_Witness ==
    /\ pc = "parsed"
    /\ TitleFails(arg) /\ LocationFails(arg) /\ QualFails(arg) /\ SalaryFails(arg)
    /\ ~TeamFails(arg) /\ ~HoursFails(arg) /\ ~WfhFails(arg) /\ ~DescFails(arg)
    /\ res.company = None /\ res.location = None /\ res.qual = None
    /\ res.max_salary = NoNumber
    /\ res.team # None /\ res.hours # None /\ res.wfh # None /\ res.desc # None


\* The numbers of the '$' tokens of a text that are numbers once stripped of
\* '$', ',', '.' and '-', in the order of the text.
RECURSIVE NumbersOf(_)
NumbersOf(toks) ==
    IF toks = <<>> THEN <<>>
    ELSE (IF FloatParses(MoneyDigits(Head(toks)))
          THEN <<FloatValue(MoneyDigits(Head(toks)))>> ELSE <<>>)
         \o NumbersOf(Tail(toks))

ParsedNumbers(page) ==
    IF SalaryText(page) = None THEN <<>>
    ELSE NumbersOf(MoneyTokens(Split(SalaryText(page), " ")))

\* max_salary is the largest of the numbers and min_salary the second of
\* their descending sort.
TopTwo(numbers, record) ==
    /\ record.max_salary = <<SortReverse(numbers)[1]>>
    /\ record.min_salary = <<SortReverse(numbers)[2]>>
    /\ \A i \in 1..Len(numbers) : numbers[i] <= record.max_salary[1]
    /\ \E i, j \in 1..Len(numbers) :
          /\ i # j
          /\ numbers[i] = record.max_salary[1]
          /\ numbers[j] = record.min_salary[1]
          /\ \A k \in 1..Len(numbers) : k # i => numbers[k] <= numbers[j]

\* C13 as stated: the salaries are the top two of the numbers among the '$'
\* tokens of the block read whenever there are two or more, and absent
\* otherwise.
C13_SalaryFromNumbers ==
    pc = "parsed" =>
        IF Len(ParsedNumbers(arg)) >= 2
        THEN TopTwo(ParsedNumbers(arg), res)
        ELSE res.max_salary = NoNumber /\ res.min_salary = NoNumber

\* C13: when every '$' token of the block read is a number once stripped, the
\* salaries are the top two of those numbers if there are two or more and
\* absent otherwise; when some '$' token is not a number, both are absent.
C13_SalaryWhenAllParse ==
    pc = "parsed" =>
        IF ~SalaryFails(arg) /\ Len(ParsedNumbers(arg)) >= 2
        THEN TopTwo(ParsedNumbers(arg), res)
        ELSE res.max_salary = NoNumber /\ res.min_salary = NoNumber

\* The tokens '$120,000-' and '$150,000' of a salary-range block gave
\* max_salary 150000 and min_salary 120000.
C13_Witness ==
    /\ pc = "parsed"
    /\ SalaryText(arg) = SalarySection.text
    /\ ParsedNumbers(arg) = <<120000, 150000>>
    /\ res.max_salary = <<150000>>
    /\ res.min_salary = <<120000>>

\* Description cleaning as stated: brackets stripped from each item, the
\* items of length 3 or less after that discarded, double quotes removed, a
\* space after each item kept.
RECURSIVE CleanedThenFiltered(_)
CleanedThenFiltered(items) ==
    IF items = <<>> THEN <<>>
    ELSE LET cleaned == Replace(Replace(Head(items), <<"[">>, <<>>),
                                <<"]">>, <<>>)
         IN (IF Len(cleaned) > 3
             THEN Replace(cleaned, <<"\"">>, <<>>) \o <<" ">>
             ELSE <<>>) \o CleanedThenFiltered(Tail(items))

\* C14: description cleaning.  desc and qual are the items of their section
\* with brackets stripped, those of length 3 or less after cleaning discarded,
\* double quotes removed, joined with a space.
C14_DescriptionCleaning ==
    pc = "parsed" =>
        /\ ~DescFails(arg) =>
              res.desc = CleanedThenFiltered(arg.sections[2].items)
        /\ ~QualFails(arg) =>
              res.qual = CleanedThenFiltered(arg.sections[3].items)

----------------------------------------------------------------------------
(* Claims about save_job_info, checked under SpecSave.                     *)

\* What classify returned for the job at position k of the batch.
Verdict(k) == ValidateLocationInUsa(batch.views[k].loc.tokens, RefTables)

\* The positions of the jobs the batch's records were made from.
Contributors == { batch.info[i].job : i \in 1..Len(batch.info) }

\* C1: location gate.  A posting contributes a record to the batch's
\* qualifying records only if its page was fetched, its location tokens were
\* extracted and classify returned exactly true; a posting classified false
\* or unknown contributes none, and no posting contributes twice.
C1_LocationGate ==
    pc = "saved" =>
        /\ \A k \in Contributors :
              /\ k \in 1..Len(batch.jobs)
              /\ batch.views[k].ok
              /\ batch.views[k].loc.found
              /\ Verdict(k) = "True"
        /\ \A k \in 1..Len(batch.jobs) :
              (batch.views[k].ok /\ batch.views[k].loc.found
               /\ Verdict(k) \in {"False", "None"}) => k \notin Contributors
        /\ Cardinality(Contributors) = Len(batch.info)

\* A batch of three postings, one classified true, one false and one
\* unknown, of which the first alone made a record.
C1_Witness ==
    /\ pc = "saved"
    /\ Len(batch.jobs) = 3
    /\ \A k \in 1..3 : batch.views[k].ok /\ batch.views[k].loc.found
    /\ { Verdict(k) : k \in 1..3 } = {"True", "False", "None"}
    /\ Len(batch.info) = 1
    /\ Verdict(batch.info[1].job) = "True"

\* C3: persistence threshold and header.  A batch with zero or one
\* qualifying record leaves main.csv as it was; a batch with two or more
\* writes all of them in order, after a header row in a file it creates, and
\* after the rows already there, with no header row, in a file that existed.
C3_ThresholdAndHeader ==
    pc = "saved" =>
        LET n == Len(batch.info)
            old == batch.before
            row(i) == [header |-> FALSE, rec |-> batch.info[i].rec]
        IN /\ n <= 1 => store = old
           /\ (n >= 2 /\ ~old.exists) =>
                 /\ store.exists
                 /\ Len(store.rows) = n + 1
                 /\ store.rows[1].header
                 /\ \A i \in 1..n : store.rows[i + 1] = row(i)
           /\ (n >= 2 /\ old.exists) =>
                 /\ store.exists
                 /\ Len(store.rows) = Len(old.rows) + n
                 /\ \A i \in 1..Len(old.rows) : store.rows[i] = old.rows[i]
                 /\ \A i \in 1..n : store.rows[Len(old.rows) + i] = row(i)

\* A batch of two qualifying records appended, with no second header row, to
\* the file an earlier batch created.
C3_Witness ==
    /\ pc = "saved"
    /\ Len(batch.info) = 2
    /\ batch.before = WrittenStore
    /\ Len(store.rows) = 5
    /\ { i \in 1..5 : store.rows[i].header } = {1}

\* Whether the page of the job at position k was fetched and its location
\* parsed.
Sound(k) == batch.views[k].ok /\ batch.views[k].loc.found

\* A list of jobs without those whose fetch or location parse fails.
WithoutFailed(jobs) ==
    SelectSeq(jobs, LAMBDA j : web[j.desc].ok /\ web[j.desc].loc.found)

\* What is fetched for each job of a list.
ViewsOf(jobs) == [k \in 1..Len(jobs) |-> web[jobs[k].desc]]

\* The records of a job_info, in order.
Records(info) == [i \in 1..Len(info) |-> info[i].rec]

\* C11: batch fault isolation.  A posting whose fetch or parse fails makes no
\* record; every other posting that qualifies makes one; and the batch's
\* records are those of the same batch without the failing postings.
C11_BatchFaultIsolation ==
    pc = "saved" =>
        /\ \A k \in 1..Len(batch.jobs) : ~Sound(k) => k \notin Contributors
        /\ \A k \in 1..Len(batch.jobs) :
              (Sound(k) /\ Verdict(k) = "True") => k \in Contributors
        /\ Records(batch.info) =
              Records(CollectJobInfo(WithoutFailed(batch.jobs),
                                     ViewsOf(WithoutFailed(batch.jobs)), 1))

\* A batch whose first posting was not fetched and whose second had no
\* location to parse, and whose third made the batch's one record.
C11_Witness ==
    /\ pc = "saved"
    /\ Len(batch.jobs) = 3
    /\ ~batch.views[1].ok
    /\ batch.views[2].ok /\ ~batch.views[2].loc.found
    /\ Len(batch.info) = 1
    /\ batch.info[1].job = 3

\* How many times the batch fetched the page at url u: the loop fetches once
\* for each job.
FetchCount(u) ==
    Cardinality({ k \in 1..Len(batch.jobs) : batch.jobs[k].desc = u })

\* C12: a failed item is final.  A posting whose fetch failed, or that the
\* gate or the threshold discarded, is fetched at most once in a save batch.
C12_FetchedOncePerBatch ==
    pc = "saved" =>
        \A u \in DescUrls :
            (~Qualifies(web[u]) \/ Len(batch.info) < 2) => FetchCount(u) <= 1

\* C18: store header invariant.  A main.csv that is not empty has the header
\* row as its first row and no other header row.
C18_HeaderFirstAndOnce ==
    store.rows # <<>> =>
        /\ store.rows[1].header
        /\ { i \in 1..Len(store.rows) : store.rows[i].header } = {1}

----------------------------------------------------------------------------
(* Claims about the history log and the Bot, checked under SpecRuns.       *)

\* The links clean_scraped_links was last called with.
LastNewLinks == NewLinks(trace.links, bot.prev)

\* C8: history side effect.  A clean_scraped_links call leaves every line
\* already in the log as it was and appends, for each LinkRecord it produced
\* and in production order, the apply url and then the desc url: two lines
\* for each url that made a record and none for a dropped url.
C8_HistoryAppend ==
    pc = "got" =>
        LET old == trace.before
            produced == bot.jobs
            kept == { j \in 1..Len(LastNewLinks) :
                        ValidateLink(LastNewLinks[j]) }
        IN /\ Len(history) = Len(old) + 2 * Len(produced)
           /\ \A i \in 1..Len(old) : history[i] = old[i]
           /\ \A k \in 1..Len(produced) :
                 /\ history[Len(old) + 2 * k - 1] = produced[k].apply
                 /\ history[Len(old) + 2 * k] = produced[k].desc
           /\ Len(history) - Len(old) = 2 * Cardinality(kept)

\* A call given two valid urls and a dropped one, on a log that already had
\* lines: it appended four lines.
C8_Witness ==
    /\ pc = "got"
    /\ trace.before # <<>>
    /\ Len(LastNewLinks) = 3
    /\ Len(bot.jobs) = 2
    /\ Len(history) = Len(trace.before) + 4
    /\ bot.jobs[1].apply # bot.jobs[1].desc

\* C9: deduplication across runs.  When every run constructs a Bot and
\* calls get_jobs once, no raw url that made a LinkRecord in an earlier run
\* makes one in a later run.
C9_NoSecondRecord == trace.once => trace.again = {}

\* The application urls of the LinkRecords produced so far, in production
\* order: the first of the two lines written for each record.
ProducedApply == [k \in 1..(Len(history) \div 2) |-> history[2 * k - 1]]

\* C17: uniqueness of postings.  No application url is in more than one
\* produced LinkRecord and no url is on more than one line of the history log.
C17_UniqueUrls ==
    /\ \A k1, k2 \in 1..Len(ProducedApply) :
          ProducedApply[k1] = ProducedApply[k2] => k1 = k2
    /\ \A i, j \in 1..Len(history) : history[i] = history[j] => i = j

----------------------------------------------------------------------------
(* Claims about the apply loop, checked under SpecApply.                   *)

\* Two records that differ at most in applied.
SameButApplied(r1, r2) == [r1 EXCEPT !.applied = FALSE] = [r2 EXCEPT !.applied = FALSE]

\* Every row of main.csv is still there, in its place, with the fields it
\* had as read from the file, and with applied not gone from true to false.
RowsKept(old, new) ==
    /\ Len(new.rows) >= Len(old.rows)
    /\ \A i \in 1..Len(old.rows) :
          /\ new.rows[i].header = old.rows[i].header
          /\ SameButApplied(ReadCsvRow(new.rows[i].rec),
                            ReadCsvRow(old.rows[i].rec))
          /\ old.rows[i].rec.applied => new.rows[i].rec.applied

\* C15: applied lifecycle.  Every record is created with applied false;
\* record_job_as_applied_to(url) sets applied on the rows whose apply url is
\* url and changes nothing else; and no step removes a row of main.csv or
\* takes applied from true back to false.
C15_AppliedLifecycle ==
    /\ [](pc = "saved" =>
            \A i \in 1..Len(batch.info) : ~batch.info[i].rec.applied)
    /\ [](pc = "applied" =>
            /\ Len(demo.table) = Len(demo.before)
            /\ \A i \in 1..Len(demo.table) :
                  /\ SameButApplied(demo.table[i], demo.before[i])
                  /\ demo.table[i].applied =
                        (demo.before[i].applied
                         \/ demo.before[i].apply = demo.url))
    /\ [][RowsKept(store, store')]_vars

\* record_job_as_applied_to has just set applied on a row of the table and
\* left a row with another apply url not applied to.
C15_Witness ==
    /\ pc = "applied"
    /\ \E i, j \in 1..Len(demo.table) :
          /\ demo.table[i].apply = demo.url
          /\ ~demo.before[i].applied /\ demo.table[i].applied
          /\ demo.table[j].apply # demo.url
          /\ ~demo.table[j].applied

\* C19: a row is applied to only when the application went through: upload,
\* form filling and submit click without error.
C19_AppliedOnlyAfterSubmit ==
    /\ \A i \in 1..Len(demo.table) :
          demo.table[i].applied => demo.table[i].apply \in demo.clean
    /\ \A i \in 1..Len(store.rows) :
          store.rows[i].rec.applied => store.rows[i].rec.apply \in demo.clean

----------------------------------------------------------------------------
(* Claims about the Browser session, checked under SpecDemo.               *)

\* C20: session lifecycle.  No operation is invoked on a Browser after its
\* quit(), and quit() is called at most once.
C20_SessionLifecycle == ~demo.afterQuit /\ demo.quits <= 1

=============================================================================
